---- MODULE Spec2Model ----
(***************************************************************************)
(* Host side of the resistor sorter's serial command protocol              *)
(* (src/RPi/ResistorSortUI/ResistorSorter.py): Command.send, Command.parse,*)
(* fetchCmd, the send helpers and waitFor, over the global serial port.    *)
(*                                                                         *)
(* Text and byte strings are sequences of character codes 0..255.          *)
(* The script names no interpreter.  The two it can run under differ in    *)
(* three places the protocol depends on, so the interpreter is a value     *)
(* chosen once, in Init:                                                   *)
(*   py = 2   chr(n) raises ValueError for n >= 256; bytes(s) is s;        *)
(*            indexing a byte string gives a 1-character string, which is  *)
(*            never equal to an int.                                       *)
(*   py = 3   chr(n) is defined far beyond 255; bytes(s) of a str without  *)
(*            an encoding raises TypeError; indexing a bytes object gives  *)
(*            an int.                                                      *)
(***************************************************************************)
EXTENDS Integers, Sequences, FiniteSets, TLC

VARIABLES
    py,         \* the interpreter running the script: 2 or 3
    wire,       \* bytes the device has sent that have not reached the port yet
    inbuf,      \* the port's input buffer (port.in_waiting = Len(inbuf))
    outbuf,     \* the sequence of byte strings given to port.write, in order
    errors,     \* the ERROR lines fetchCmd has printed: [received, expected]
    warnings,   \* the WARNING lines waitFor has printed: [receivedCmd, expectedCmd]
    pc,         \* position of the host program
    caller,     \* who called fetchCmd: "main" or "waitFor"
    command,    \* waitFor's parameter
    nextLine,   \* fetchCmd's local: the line read, terminator stripped
    fetchOut,   \* the value fetchCmd returned last
    thisCmd,    \* waitFor's local Command instance
    result,     \* how the last host operation ended
    heap,       \* Command.args of the class and the Command instances made so far
    lastSend,   \* history: the Command given to the last send and its outcome
    lastParse,  \* history: the string the main program parsed last and the result
    rawLine,    \* history: what port.readline() returned in the current fetchCmd call
    fetchReads, \* history: lines consumed by the current fetchCmd call
    fetchStatus,\* history: how the current fetchCmd call went, see FetchLine
    waitTrace,  \* history: one record per loop pass of the current waitFor call
    deviceSent, \* history: every byte the device has sent, in order
    delivered,  \* history: the lines port.readline() returned: [op, raw], in order
    nOps,       \* number of operations the main program has started
    nPolls,     \* number of times fetchCmd tested port.in_waiting
    nLines      \* number of lines the device has sent

vars == <<py, wire, inbuf, outbuf, errors, warnings, pc, caller, command, nextLine, fetchOut,
          thisCmd, result, lastSend, rawLine, fetchReads, fetchStatus, waitTrace,
          deviceSent, delivered, heap, lastParse, nOps, nPolls, nLines>>

(***************************************************************************)
(* Bounds of the model.                                                    *)
(***************************************************************************)
MaxOps == 2
MaxPolls == 3
MaxLines == 2

(***************************************************************************)
(* Program constants.                                                      *)
(***************************************************************************)
SEMI == 59          \* ";"
COMMA == 44         \* ","
LF == 10            \* "\n", where port.readline() stops
CR == 13            \* "\r"
ChrRange == 256     \* chr(n) of the 8-bit interpreter needs n in range(256)
AsciiRange == 128   \* decode("ascii") needs every byte below 128
StripLen == 2       \* nextLine[:-2]
VerifLen == 1       \* inputStr[1:]
CmdLen == 3         \* workingStr[:3]
ArgsStart == 4      \* workingStr[4:]

Interpreters == {2, 3}

(***************************************************************************)
(* Character strings used by the program and by the inputs.                *)
(***************************************************************************)
EmptyStr == <<>>
RDY == <<82, 68, 89>>
ACK == <<65, 67, 75>>
NXT == <<78, 88, 84>>
END == <<69, 78, 68>>
ERR == <<69, 82, 82>>
DAT == <<68, 65, 84>>
BadSensor == <<98, 97, 100, 95, 115, 101, 110, 115, 111, 114>>   \* "bad_sensor"
One == <<49>>                                                     \* "1"
Two == <<50>>                                                     \* "2"
Rep(ch, n) == [i \in 1..n |-> ch]

(***************************************************************************)
(* Python sequence operations, with Python's clamping of slice bounds.     *)
(***************************************************************************)
Min(a, b) == IF a < b THEN a ELSE b

\* s[k:]
SliceFrom(s, k) == IF k >= Len(s) THEN <<>> ELSE SubSeq(s, k + 1, Len(s))

\* s[:k]
SliceTo(s, k) == SubSeq(s, 1, Min(k, Len(s)))

\* a slice that drops one element more than it was asked to
SliceDropLastOneMore(s, k) == IF k + 1 >= Len(s) THEN <<>> ELSE SubSeq(s, 1, Len(s) - k - 1)

\* s[:-k]
SliceDropLast(s, k) == IF k >= Len(s) THEN <<>> ELSE SubSeq(s, 1, Len(s) - k)

\* ",".join(args)
RECURSIVE Join(_)
Join(args) ==
    IF Len(args) = 0 THEN <<>>
    ELSE IF Len(args) = 1 THEN args[1]
    ELSE args[1] \o <<COMMA>> \o Join(Tail(args))

\* s.split(','): one more piece than there are commas, empty pieces kept
RECURSIVE Split(_)
Split(s) ==
    IF \E i \in 1..Len(s) : s[i] = COMMA
    THEN LET i == CHOOSE j \in 1..Len(s) :
                      s[j] = COMMA /\ \A k \in 1..(j - 1) : s[k] # COMMA
         IN  <<SubSeq(s, 1, i - 1)>> \o Split(SliceFrom(s, i))
    ELSE <<s>>

(***************************************************************************)
(* class Command                                                           *)
(***************************************************************************)
\* a Command instance as built by Command(): the class attributes cmd = "", args = []
NewCommand == [cmd |-> EmptyStr, args |-> <<>>]

\* send with the ";" left out when there are no args
SendBodyNoSeparator(c) == IF c.args = <<>> THEN c.cmd ELSE c.cmd \o <<SEMI>> \o Join(c.args)

\* send, lines 33-37: cmd + ";" + ",".join(args)
SendBody(c) == c.cmd \o <<SEMI>> \o Join(c.args)

\* chr that wraps around at 256 instead of raising
ChrWrapped(n, interp) == [ok |-> TRUE, ch |-> <<n % ChrRange>>]

\* send, line 40: chr(len(output)); ok is FALSE where chr raises ValueError
Chr(n, interp) ==
    IF interp = 2 /\ n >= ChrRange
    THEN [ok |-> FALSE, ch |-> <<>>]
    ELSE [ok |-> TRUE, ch |-> <<n>>]

\* send, line 44: bytes(output); ok is FALSE where bytes raises TypeError
ToBytes(output, interp) ==
    IF interp = 3
    THEN [ok |-> FALSE, bytes |-> <<>>]
    ELSE [ok |-> TRUE, bytes |-> output]

\* send, lines 33-41: the string output = validByte + cmd + ";" + joined args;
\* ok is FALSE where chr raised
SendOutput(c, interp) ==
    LET output    == SendBody(c)
        validByte == Chr(Len(output), interp)
    IN  [ok |-> validByte.ok, str |-> validByte.ch \o output]

\* send, lines 29-48, as the outcome of the call and the bytes given to port.write
SendFrame(c, interp) ==
    LET output == SendOutput(c, interp)
        serOut == ToBytes(output.str, interp)
    IN  IF ~output.ok THEN [outcome |-> "ValueError", bytes |-> <<>>]
        ELSE IF ~serOut.ok THEN [outcome |-> "TypeError", bytes |-> <<>>]
        ELSE [outcome |-> "written", bytes |-> serOut.bytes]

\* parse without the test of line 61: the remainder is always split
ParseAlwaysSplit(inputStr) ==
    LET workingStr == SliceFrom(inputStr, VerifLen)
        rest       == SliceFrom(workingStr, ArgsStart)
    IN  [cmd  |-> SliceTo(workingStr, CmdLen),
         args |-> Split(rest)]

\* parse, lines 50-66
Parse(inputStr) ==
    LET workingStr == SliceFrom(inputStr, VerifLen)
        rest       == SliceFrom(workingStr, ArgsStart)
    IN  [cmd  |-> SliceTo(workingStr, CmdLen),
         args |-> IF Len(rest) > 0 THEN Split(rest) ELSE <<>>]

(***************************************************************************)
(* Command instances.  cmd and args are class attributes (lines 26-27): an *)
(* instance reads them until an assignment gives it an attribute of its    *)
(* own.  The class's args is one list object, shared by all such instances.*)
(***************************************************************************)
\* before any Command(): the class's list is empty, no instance exists
NoInstances == [cls |-> <<>>, objs |-> <<>>]

\* Command(): one more instance, without attributes of its own
New(h) == [h EXCEPT !.objs = Append(@, [cmd |-> EmptyStr, args |-> <<>>, own |-> FALSE])]

\* what instance i shows as cmd and args
View(h, i) ==
    [cmd  |-> h.objs[i].cmd,
     args |-> IF h.objs[i].own THEN h.objs[i].args ELSE h.cls]

\* x.cmd = value
SetCmd(h, i, value) == [h EXCEPT !.objs[i].cmd = value]

\* an assignment that extends the list the instance shows, in place
SetArgsInPlace(h, i, value) ==
    IF h.objs[i].own
    THEN [h EXCEPT !.objs[i].args = @ \o value]
    ELSE [h EXCEPT !.cls = @ \o value]

\* x.args = value (lines 63, 66, 98, 134 and alike): the instance gets a list of its own
SetArgs(h, i, value) == [h EXCEPT !.objs[i].args = value, !.objs[i].own = TRUE]

\* x.parse(inputStr), lines 50-66: both attributes are assigned
ParseInto(h, i, inputStr) ==
    LET p == Parse(inputStr)
    IN  SetArgs(SetCmd(h, i, p.cmd), i, p.args)

\* x = Command(); x.cmd = c.cmd; x.args = c.args
Build(h, c) ==
    LET i == Len(h.objs) + 1
    IN  SetArgs(SetCmd(New(h), i, c.cmd), i, c.args)

(***************************************************************************)
(* The serial port, as used by fetchCmd.                                   *)
(***************************************************************************)
HasLine(buf) == \E i \in 1..Len(buf) : buf[i] = LF

\* index of the first "\n" of a buffer that has one
FirstLF(buf) == CHOOSE i \in 1..Len(buf) : buf[i] = LF /\ \A k \in 1..(i - 1) : buf[k] # LF

\* port.readline(): the bytes up to and including the first "\n"
ReadLine(buf) == SubSeq(buf, 1, FirstLF(buf))

\* a readline() that leaves the line it returned in the buffer
AfterReadLineKeep(buf) == buf

\* what port.readline() leaves in the input buffer
AfterReadLine(buf) == SliceFrom(buf, FirstLF(buf))

\* fetchCmd, line 83: nextLine[0] != len(nextLine), for a nextLine that has a byte 0.
\* Under py = 2 the left side is a 1-character string and the right side an int.
VerifInvalid(line, interp) ==
    IF interp = 2 THEN TRUE ELSE line[1] # Len(line)

\* fetchCmd, line 88: decode("ascii") raises UnicodeDecodeError on a byte >= 128
IsAscii(line) == \A i \in 1..Len(line) : line[i] < AsciiRange

\* fetchCmd, lines 77-88, applied to the line port.readline() returned
FetchLine(raw, interp) ==
    LET line == SliceDropLast(raw, StripLen)
    IN  IF Len(line) = 0
        THEN [outcome |-> "IndexError", line |-> line, output |-> EmptyStr, printed |-> <<>>]
        ELSE IF VerifInvalid(line, interp)
        THEN [outcome |-> "rejected", line |-> line, output |-> EmptyStr,
              printed |-> <<[received |-> line[1], expected |-> Len(line)]>>]
        ELSE IF ~IsAscii(line)
        THEN [outcome |-> "UnicodeDecodeError", line |-> line, output |-> EmptyStr,
              printed |-> <<>>]
        ELSE [outcome |-> "accepted", line |-> line, output |-> line, printed |-> <<>>]

\* a comparison that also takes a Command without a code for a match
MatchesOrEmpty(c, expectedCode) == c.cmd = expectedCode \/ c.cmd = EmptyStr

\* waitFor, line 157: thisCmd.cmd == command
Matches(c, expectedCode) == c.cmd = expectedCode

(***************************************************************************)
(* Inputs.                                                                 *)
(***************************************************************************)
CRLF == <<CR, LF>>

\* a line on the wire: leading byte v, then the body, then the terminator
Line(v, body, term) == <<v>> \o body \o term

\* the lines the device may send
LinePool ==
    { Line(Len(code) + 1 + d, code \o <<SEMI>>, CRLF) : code \in {RDY, ACK}, d \in {0, 1} }
    \cup { Line(8, DAT \o <<SEMI>> \o One \o <<COMMA>> \o Two, CRLF),
           Line(4, RDY \o <<SEMI>>, <<LF>>),
           Line(2, <<200>>, CRLF),
           CRLF,
           <<LF>> }

\* the codes the main program may wait for
WaitPool == {RDY, ACK}

\* the arguments the main program may pass to sendError and sendDat
ErrPool == {BadSensor}
DatPool == {One, Rep(120, ChrRange - 5), Rep(120, ChrRange - 4)}

\* Commands the main program may build and send itself
CmdPool == { [cmd |-> DAT, args |-> <<One, Two>>], [cmd |-> RDY, args |-> <<EmptyStr>>] }

\* the strings the main program may give to Command.parse, besides the frames
\* that were written: "\x04RDY;", "\x08DAT;1,2", "\x05ERR;," and ""
ParsePool ==
    { <<4>> \o RDY \o <<SEMI>>,
      <<8>> \o DAT \o <<SEMI>> \o One \o <<COMMA>> \o Two,
      <<5>> \o ERR \o <<SEMI, COMMA>>,
      EmptyStr }

NoParse == [done |-> FALSE, input |-> EmptyStr, c |-> NewCommand]
NoResult == [op |-> "none", outcome |-> "none", cmd |-> NewCommand]
NoSend == [c |-> NewCommand, outcome |-> "none", wrote |-> 0]

Init ==
    /\ py \in Interpreters
    /\ wire = <<>>
    /\ inbuf = <<>>
    /\ outbuf = <<>>
    /\ errors = <<>>
    /\ warnings = <<>>
    /\ pc = "idle"
    /\ caller = "main"
    /\ command = EmptyStr
    /\ nextLine = <<>>
    /\ fetchOut = EmptyStr
    /\ thisCmd = NewCommand
    /\ result = NoResult
    /\ lastSend = NoSend
    /\ rawLine = <<>>
    /\ fetchReads = 0
    /\ fetchStatus = "none"
    /\ waitTrace = <<>>
    /\ deviceSent = <<>>
    /\ delivered = <<>>
    /\ heap = NoInstances
    /\ lastParse = NoParse
    /\ nOps = 0
    /\ nPolls = 0
    /\ nLines = 0

(***************************************************************************)
(* The device and the serial link.                                         *)
(***************************************************************************)
\* the device writes one line
DeviceSend(l) ==
    /\ nLines < MaxLines
    /\ wire = <<>>
    /\ wire' = l
    /\ nLines' = nLines + 1
    /\ deviceSent' = deviceSent \o l
    /\ UNCHANGED <<delivered, heap, lastParse, py, inbuf, outbuf, errors, warnings, pc, caller, command,
                   nextLine, fetchOut,
                   thisCmd, result, lastSend, rawLine, fetchReads, fetchStatus,
                   waitTrace, nOps, nPolls>>

\* the first k bytes in flight reach the port's input buffer
Arrive(k) ==
    /\ k \in 1..Len(wire)
    /\ inbuf' = inbuf \o SubSeq(wire, 1, k)
    /\ wire' = SliceFrom(wire, k)
    /\ UNCHANGED <<deviceSent, delivered, heap, lastParse, py, outbuf, errors, warnings, pc, caller, command,
                   nextLine, fetchOut,
                   thisCmd, result, lastSend, rawLine, fetchReads, fetchStatus,
                   waitTrace, nOps, nPolls, nLines>>

(***************************************************************************)
(* Command.send and the send helpers.                                      *)
(***************************************************************************)
\* a Command is made, cmd and args are assigned (lines 95-98 and alike), and its
\* send() is called, by the main program or by a helper `op`
Send(op, c) ==
    LET made == Build(heap, c)
        self == View(made, Len(made.objs))
        r    == SendFrame(self, py)
    IN  /\ pc = "idle"
        /\ nOps < MaxOps
        /\ nOps' = nOps + 1
        /\ heap' = made
        /\ outbuf' = IF r.outcome = "written" THEN Append(outbuf, r.bytes) ELSE outbuf
        /\ lastSend' = [c |-> self, outcome |-> r.outcome,
                        wrote |-> Len(outbuf') - Len(outbuf)]
        /\ result' = [op |-> op, outcome |-> r.outcome, cmd |-> self]
        /\ UNCHANGED <<deviceSent, delivered, lastParse, py, wire, inbuf, errors, warnings, pc, caller,
                       command, nextLine, fetchOut,
                       thisCmd, rawLine, fetchReads, fetchStatus, waitTrace, nPolls,
                       nLines>>

CommandSend(c) == Send("send", c)

sendRdy == Send("sendRdy", [NewCommand EXCEPT !.cmd = RDY, !.args = <<>>])

sendAck == Send("sendAck", [NewCommand EXCEPT !.cmd = ACK, !.args = <<>>])

sendNxt == Send("sendNxt", [NewCommand EXCEPT !.cmd = NXT, !.args = <<>>])

sendEnd == Send("sendEnd", [NewCommand EXCEPT !.cmd = END, !.args = <<>>])

sendError(err) == Send("sendError", [NewCommand EXCEPT !.cmd = ERR, !.args = <<err>>])

sendDat(data) == Send("sendDat", [NewCommand EXCEPT !.cmd = DAT, !.args = <<data>>])

\* the main program makes a Command and calls its parse(inputStr)
CommandParse(inputStr) ==
    LET made == ParseInto(New(heap), Len(heap.objs) + 1, inputStr)
        self == View(made, Len(made.objs))
    IN  /\ pc = "idle"
        /\ nOps < MaxOps
        /\ nOps' = nOps + 1
        /\ heap' = made
        /\ lastParse' = [done |-> TRUE, input |-> inputStr, c |-> self]
        /\ result' = [op |-> "parse", outcome |-> "returned", cmd |-> self]
        /\ UNCHANGED <<deviceSent, delivered, lastSend, py, wire, inbuf, outbuf, errors,
                       warnings, pc, caller, command, nextLine, fetchOut, thisCmd, rawLine,
                       fetchReads, fetchStatus, waitTrace, nPolls, nLines>>

(***************************************************************************)
(* fetchCmd and waitFor.                                                   *)
(***************************************************************************)
\* a receive path that answers a rejected line or an unexpected command with "ERR"
ReceiveWritesErr(event) == IF event \in {"rejected", "unexpected"} THEN <<ERR>> ELSE <<>>

\* the byte strings fetchCmd (lines 68-91) and waitFor (lines 147-162) give to
\* port.write when `event` happens: an outcome of FetchLine, "empty" for a poll
\* without data, "unexpected" for a command waitFor discards.  Neither function
\* calls port.write or Command.send.
ReceiveWrites(event) == <<>>

\* what the receive path writes in the step where fetchCmd ends with `event` and
\* `out`: fetchCmd's own writes, then those of waitFor when it is the caller and
\* discards what it parsed from `out`
StepWrites(event, out) ==
    ReceiveWrites(event)
    \o (IF /\ caller = "waitFor"
            /\ event \in {"empty", "rejected", "accepted"}
            /\ ~Matches(Parse(out), command)
         THEN ReceiveWrites("unexpected")
         ELSE <<>>)

\* waitFor, lines 154-162 and 152-153, after fetchCmd() returned thisInput: parse it
\* into a new Command; return it on a match; otherwise print the warning and start
\* the next pass with another call of fetchCmd()
WaitPass(thisInput, raw, reads) ==
    LET made   == ParseInto(New(heap), Len(heap.objs) + 1, thisInput)
        parsed == View(made, Len(made.objs))
    IN  /\ heap' = made
        /\ thisCmd' = parsed
        /\ IF Matches(parsed, command)
           THEN /\ pc' = "idle"
                /\ result' = [op |-> "waitFor", outcome |-> "returned", cmd |-> parsed]
                /\ waitTrace' = Append(waitTrace,
                       [reads |-> reads, raw |-> raw, status |-> fetchStatus',
                        cmd |-> parsed, warned |-> FALSE])
                /\ UNCHANGED warnings
           ELSE /\ warnings' = Append(warnings,
                       [receivedCmd |-> parsed.cmd, expectedCmd |-> command])
                /\ waitTrace' = Append(waitTrace,
                       [reads |-> reads, raw |-> raw, status |-> fetchStatus',
                        cmd |-> parsed, warned |-> TRUE])
                /\ pc' = "fetch_poll"
                /\ UNCHANGED result

\* fetchCmd() returns `out` to its caller
FetchReturns(out, raw, reads) ==
    /\ fetchOut' = out
    /\ IF caller = "waitFor"
       THEN WaitPass(out, raw, reads)
       ELSE /\ pc' = "idle"
            /\ result' = [op |-> "fetchCmd", outcome |-> "returned", cmd |-> NewCommand]
            /\ UNCHANGED <<thisCmd, warnings, waitTrace, heap>>

\* an exception leaves fetchCmd, and waitFor when it is the caller: neither has a handler
FetchRaises(exc) ==
    /\ pc' = "idle"
    /\ result' = [op |-> IF caller = "waitFor" THEN "waitFor" ELSE "fetchCmd",
                  outcome |-> exc, cmd |-> NewCommand]
    /\ UNCHANGED <<fetchOut, thisCmd, warnings, waitTrace, heap>>

\* the main program calls fetchCmd()
CallFetchCmd ==
    /\ pc = "idle"
    /\ nOps < MaxOps
    /\ nOps' = nOps + 1
    /\ pc' = "fetch_poll"
    /\ caller' = "main"
    /\ result' = [op |-> "fetchCmd", outcome |-> "running", cmd |-> NewCommand]
    /\ rawLine' = <<>>
    /\ fetchReads' = 0
    /\ fetchStatus' = "none"
    /\ UNCHANGED <<deviceSent, delivered, heap, lastParse, py, wire, inbuf, outbuf, errors, warnings, command,
                   nextLine, fetchOut,
                   thisCmd, lastSend, waitTrace, nPolls, nLines>>

\* the main program calls waitFor(expectedCode); the loop's first pass calls fetchCmd()
CallWaitFor(expectedCode) ==
    /\ pc = "idle"
    /\ nOps < MaxOps
    /\ nOps' = nOps + 1
    /\ command' = expectedCode
    /\ waitTrace' = <<>>
    /\ pc' = "fetch_poll"
    /\ caller' = "waitFor"
    /\ result' = [op |-> "waitFor", outcome |-> "running", cmd |-> NewCommand]
    /\ rawLine' = <<>>
    /\ fetchReads' = 0
    /\ fetchStatus' = "none"
    /\ UNCHANGED <<deviceSent, delivered, heap, lastParse, py, wire, inbuf, outbuf, errors, warnings,
                   nextLine, fetchOut, thisCmd,
                   lastSend, nPolls, nLines>>

\* fetchCmd, lines 72-76 and 89-91: one test of port.in_waiting; the break at the
\* loop's level ends the loop whether or not the test succeeded, and fetchCmd
\* returns the "" that output was set to
FetchPoll ==
    /\ pc = "fetch_poll"
    /\ nPolls < MaxPolls
    /\ nPolls' = nPolls + 1
    /\ nextLine' = <<>>
    /\ rawLine' = <<>>
    /\ fetchReads' = 0
    /\ IF Len(inbuf) > 0
       THEN /\ pc' = "fetch_readline"
            /\ fetchStatus' = "reading"
            /\ UNCHANGED <<outbuf, fetchOut, result, thisCmd, warnings, waitTrace, heap>>
       ELSE /\ fetchStatus' = "empty"
            /\ outbuf' = outbuf \o StepWrites("empty", EmptyStr)
            /\ FetchReturns(EmptyStr, <<>>, 0)
    /\ UNCHANGED <<py, wire, inbuf, errors, caller, command, lastSend,
                   deviceSent, delivered, lastParse, nOps, nLines>>

\* fetchCmd, lines 77-91: port.readline() blocks until the buffer holds a "\n"
FetchReadLine ==
    /\ pc = "fetch_readline"
    /\ HasLine(inbuf)
    /\ LET raw == ReadLine(inbuf)
           r   == FetchLine(raw, py)
       IN  /\ inbuf' = AfterReadLine(inbuf)
           /\ rawLine' = raw
           /\ delivered' = Append(delivered, [op |-> nOps, raw |-> raw])
           /\ fetchReads' = fetchReads + 1
           /\ nextLine' = r.line
           /\ errors' = errors \o r.printed
           /\ fetchStatus' = r.outcome
           /\ outbuf' = outbuf \o StepWrites(r.outcome, r.output)
           /\ IF r.outcome \in {"accepted", "rejected"}
              THEN FetchReturns(r.output, raw, fetchReads + 1)
              ELSE FetchRaises(r.outcome)
    /\ UNCHANGED <<py, wire, caller, command, lastSend, deviceSent, lastParse,
                   nOps, nPolls, nLines>>

\* the device and the link
Device ==
    \/ \E l \in LinePool : DeviceSend(l)
    \/ \E k \in {1, Len(wire)} : Arrive(k)

\* the main program sends
Sender ==
    \/ \E c \in CmdPool : CommandSend(c)
    \/ sendRdy
    \/ sendAck
    \/ sendNxt
    \/ sendEnd
    \/ \E err \in ErrPool : sendError(err)
    \/ \E data \in DatPool : sendDat(data)

\* the main program parses a string, one of the pool or a frame that was written
Parser ==
    \/ \E inputStr \in ParsePool : CommandParse(inputStr)
    \/ \E i \in 1..Len(outbuf) : CommandParse(outbuf[i])

\* the main program receives
Receiver ==
    \/ CallFetchCmd
    \/ \E expectedCode \in WaitPool : CallWaitFor(expectedCode)
    \/ FetchPoll
    \/ FetchReadLine

Next == Device \/ Sender \/ Parser \/ Receiver

Spec == Init /\ [][Next]_vars

\* the receive path alone: the device, the link, fetchCmd and waitFor
NextRecv == Device \/ Receiver

RecvSpec == Init /\ [][NextRecv]_vars

\* the lines of the handshake: a RDY framed the way send frames it, and lines
\* framed the way fetchCmd accepts them
HandshakeLines ==
    { Line(4, RDY \o <<SEMI>>, CRLF),
      Line(5, RDY \o <<SEMI>>, CRLF),
      Line(5, ACK \o <<SEMI>>, CRLF),
      Line(8, DAT \o <<SEMI>> \o One \o <<COMMA>> \o Two, CRLF) }

\* a device that sends handshake lines over a link that delivers whole lines
Link ==
    \/ \E l \in HandshakeLines : DeviceSend(l)
    \/ \E k \in {Len(wire)} : Arrive(k)

\* the step FetchReadLine seen from the program's position: port.readline() has a
\* line to return, and fetchCmd goes on to its return or to the next pass.  No
\* other step leaves "fetch_readline".
FetchReadLineReturns ==
    /\ pc = "fetch_readline"
    /\ HasLine(inbuf)
    /\ pc' \in {"idle", "fetch_poll"}

\* the receive path with the scheduling the program has: the main program is one
\* thread that keeps running, so a step of fetchCmd that can be taken is taken, and
\* bytes on the link reach the port
FairRecvSpec ==
    /\ RecvSpec
    /\ WF_vars(FetchPoll)
    /\ WF_pc(FetchReadLineReturns)
    /\ WF_vars(\E k \in {Len(wire)} : Arrive(k))

\* the program on that link, with every way it makes Commands: a helper without
\* and one with an argument, Command.parse, fetchCmd and waitFor
NextLifecycle ==
    \/ Link
    \/ Receiver
    \/ sendRdy
    \/ \E err \in ErrPool : sendError(err)
    \/ Parser

LifecycleSpec == Init /\ [][NextLifecycle]_vars

\* the codec alone: Command.send, the helpers and Command.parse
NextCodec == Sender \/ Parser

CodecSpec == Init /\ [][NextCodec]_vars

\* the send path alone: Command.send and the helpers
NextSend == Sender

SendSpec == Init /\ [][NextSend]_vars

(***************************************************************************)
(* Properties.                                                             *)
(***************************************************************************)
Last(q) == q[Len(q)]

\* the Commands of the claims' own examples
CmdRdy == [cmd |-> RDY, args |-> <<>>]
CmdAck == [cmd |-> ACK, args |-> <<>>]
CmdErrBadSensor == [cmd |-> ERR, args |-> <<BadSensor>>]
CmdDatOneTwo == [cmd |-> DAT, args |-> <<One, Two>>]

\* a line as the wire format has it: a leading byte equal to the number of body
\* bytes, a body that starts with a 3-character code and ";", and "\r\n"
WellFormedLine(raw) ==
    /\ Len(raw) >= 7
    /\ SubSeq(raw, Len(raw) - 1, Len(raw)) = CRLF
    /\ raw[1] = Len(raw) - 3
    /\ raw[5] = SEMI

\* the 3-character code of a well-formed line
LineCode(raw) == SubSeq(raw, 2, 4)

\* the last operation of the main program was a fetchCmd or a waitFor that an
\* exception ended
ReceiveAborted ==
    /\ result.op \in {"fetchCmd", "waitFor"}
    /\ result.outcome \in {"IndexError", "UnicodeDecodeError"}

\* C1: round trip: the frame send builds for a Command c (3-character code, ASCII
\* args without "," and ";", body of at most 255 characters), delivered as one line
\* with "\r\n", is accepted by fetchCmd, and parse rebuilds cmd and args of c.
C1_RoundTrip ==
    \A c \in {CmdRdy, CmdAck, CmdDatOneTwo} :
        LET frame == SendOutput(c, py)
        IN  (/\ frame.ok
             /\ fetchReads = 1
             /\ rawLine = frame.str \o CRLF)
            => /\ fetchStatus = "accepted"
               /\ fetchOut = frame.str
               /\ caller = "waitFor" => thisCmd = c

\* a line that ends with "\r\n" and has a leading byte before it
TerminatedLine(raw) ==
    /\ Len(raw) >= 3
    /\ SubSeq(raw, Len(raw) - 1, Len(raw)) = CRLF

\* the number of bytes between the leading byte and the terminator of such a line
BodyLength(raw) == Len(raw) - 3

\* C2: the integrity check accepts a line exactly when its first byte v equals the
\* number n of bytes between the first byte and the terminator, and when v # n it
\* reports the error with received = v and expected = n.
C2_IntegrityCheck ==
    (fetchReads = 1 /\ TerminatedLine(rawLine))
    => LET v == rawLine[1]
           n == BodyLength(rawLine)
       IN  /\ (fetchStatus = "accepted") <=> (v = n)
           /\ v # n => /\ fetchStatus = "rejected"
                       /\ errors # <<>>
                       /\ Last(errors) = [received |-> v, expected |-> n]

\* C3: waitFor filtering: while every line waitFor has consumed is well formed, a
\* pass prints the unexpected-command warning exactly when it consumed a line whose
\* code differs from the expected one, and the pass that consumes the first line
\* with the expected code matches and returns that command.
C3_WaitForFiltering ==
    (/\ caller = "waitFor"
     /\ \A i \in 1..Len(waitTrace) :
            waitTrace[i].reads = 1 => WellFormedLine(waitTrace[i].raw))
    => \A i \in 1..Len(waitTrace) :
           LET pass == waitTrace[i]
           IN  /\ pass.warned <=> (pass.reads = 1 /\ LineCode(pass.raw) # command)
               /\ (pass.reads = 1 /\ LineCode(pass.raw) = command)
                  => /\ pass.cmd.cmd = command
                     /\ i = Len(waitTrace)
                     /\ pc = "idle"
                     /\ result = [op |-> "waitFor", outcome |-> "returned",
                                  cmd |-> pass.cmd]

C5_IntegrityRejection ==
    (/\ fetchReads = 1
     /\ TerminatedLine(rawLine)
     /\ fetchStatus \in {"accepted", "rejected"}
     /\ rawLine[1] # BodyLength(rawLine))
    => /\ fetchStatus = "rejected"
       /\ fetchOut = EmptyStr
       /\ caller = "waitFor" => thisCmd = [cmd |-> EmptyStr, args |-> <<>>]

\* C6: encoding: what send writes is one verification byte followed by the body
\* cmd + ";" + args joined by ",", the byte's value being the number of body
\* characters: 4 for RDY, 14 for ERR with bad_sensor; without args the body still
\* ends with ";".
C6_Encoding ==
    (lastSend.outcome = "written")
    => LET c == lastSend.c
           w == Last(outbuf)
       IN  /\ lastSend.wrote = 1
           /\ Len(w) >= 1
           /\ w[1] = Len(w) - 1
           /\ Tail(w) = c.cmd \o <<SEMI>> \o Join(c.args)
           /\ c.args = <<>> => Tail(w) = c.cmd \o <<SEMI>> /\ w[1] = Len(c.cmd) + 1
           /\ c = CmdRdy => w = <<4, 82, 68, 89, 59>>
           /\ c = CmdErrBadSensor => w[1] = 14 /\ Tail(w) = ERR \o <<SEMI>> \o BadSensor

\* C6, the case: a helper's Command without args and ERR with bad_sensor were written
C6_Witness ==
    /\ lastSend.outcome = "written"
    /\ lastSend.c = CmdErrBadSensor
    /\ Len(outbuf) = 2
    /\ outbuf[1] = <<4, 82, 68, 89, 59>>

\* C7: blocking line read: a fetchCmd call that has returned has consumed exactly
\* one line (it does not return while no byte is available), and that line is the
\* one command it yields.
C7_BlockingRead ==
    /\ (result.op = "fetchCmd" /\ result.outcome = "returned")
       => fetchReads = 1 /\ fetchStatus \in {"accepted", "rejected"}
    /\ \A i \in 1..Len(waitTrace) : waitTrace[i].reads = 1

\* C8: one frame is one line: every write of send ends with the line terminator,
\* so the outbound stream is a sequence of terminated lines.
C8_FrameIsLine ==
    \A i \in 1..Len(outbuf) :
        /\ Len(outbuf[i]) >= 1
        /\ Last(outbuf[i]) = LF
        /\ \A k \in 1..(Len(outbuf[i]) - 1) : outbuf[i][k] # LF

\* C9: non-fatal receive errors: whatever line the transport delivers, fetchCmd and
\* waitFor print a warning or error and go on; no receive operation is aborted.
C9_ReceiveNeverAborts == ~ReceiveAborted

\* C10: oversized frame: a send whose body is longer than 255 characters fails and
\* writes nothing, and no frame is ever written whose verification byte differs
\* from its body length.
C10_Oversized ==
    /\ \A i \in 1..Len(outbuf) :
           /\ Len(outbuf[i]) >= 1
           /\ outbuf[i][1] = Len(outbuf[i]) - 1
    /\ (lastSend.outcome # "none" /\ Len(SendBody(lastSend.c)) > ChrRange - 1)
       => /\ lastSend.outcome \in {"ValueError", "TypeError"}
          /\ lastSend.wrote = 0

\* C10, the case: a send with a body of 256 characters was refused, after a send
\* with a body of 255 characters was written
C10_Witness ==
    /\ Len(SendBody(lastSend.c)) = ChrRange
    /\ lastSend.outcome = "ValueError"
    /\ Len(outbuf) = 1
    /\ Len(outbuf[1]) = ChrRange

\* C11: failed decode inside waitFor: a pass whose line failed the integrity check
\* does not make waitFor return, and a well-formed line with the expected code that
\* a later pass consumes is matched and returned.
C11_FailedDecodeKeepsWaiting ==
    (caller = "waitFor")
    => \A i \in 1..Len(waitTrace) :
           (waitTrace[i].status = "rejected")
           => /\ waitTrace[i].warned
              /\ i = Len(waitTrace) => result.outcome # "returned"
              /\ \A j \in (i + 1)..Len(waitTrace) :
                     (/\ waitTrace[j].reads = 1
                      /\ WellFormedLine(waitTrace[j].raw)
                      /\ LineCode(waitTrace[j].raw) = command)
                     => /\ ~waitTrace[j].warned
                        /\ waitTrace[j].cmd.cmd = command

\* waitFor is about to read a well-formed line that carries the expected code
MatchingLineDelivered ==
    /\ caller = "waitFor"
    /\ pc = "fetch_readline"
    /\ HasLine(inbuf)
    /\ WellFormedLine(ReadLine(inbuf))
    /\ LineCode(ReadLine(inbuf)) = command

\* waitFor has returned a Command with the expected code
WaitForMatched ==
    /\ result.op = "waitFor"
    /\ result.outcome = "returned"
    /\ result.cmd.cmd = command

C13_WarningsOnlyForValidFrames ==
    (caller = "waitFor")
    => /\ \A i \in 1..Len(waitTrace) :
              waitTrace[i].warned
              <=> (/\ waitTrace[i].status = "accepted"
                   /\ waitTrace[i].cmd.cmd # command)
       /\ Cardinality({i \in 1..Len(waitTrace) : waitTrace[i].warned})
          = Cardinality({i \in 1..Len(waitTrace) :
                             /\ waitTrace[i].status = "accepted"
                             /\ waitTrace[i].cmd.cmd # command})

\* the terminator a line read from the port ends with: "\r\n", or else the "\n"
\* that ended the read
TerminatorOf(raw) ==
    IF Len(raw) >= 2 /\ SubSeq(raw, Len(raw) - 1, Len(raw)) = CRLF THEN CRLF ELSE <<LF>>

\* a line without its terminator: the verification byte and the body as transmitted
FrameOf(raw) == SubSeq(raw, 1, Len(raw) - Len(TerminatorOf(raw)))

\* the code and the args a frame carries: 3 characters, ";" and the rest between commas
FrameCarries(frame, c) ==
    /\ Len(frame) >= 5
    /\ c.cmd = SubSeq(frame, 2, 4)
    /\ frame[5] = SEMI
    /\ Join(c.args) = SubSeq(frame, 6, Len(frame))
    /\ Len(frame) = 5 <=> c.args = <<>>

\* C14 as stated: whatever terminator a line ends in, an accepted line reaches parse
\* as the verification byte followed by the complete body, and the Command built
\* from it has the code and args of the transmitted frame.
C14_StripsOnlyTerminator ==
    (fetchReads = 1 /\ fetchStatus = "accepted")
    => /\ fetchOut = FrameOf(rawLine)
       /\ caller = "waitFor" => FrameCarries(FrameOf(rawLine), thisCmd)

\* C14 as amended: fetchCmd hands on every accepted line without its last two bytes;
\* that is the verification byte and the complete body, with the code and args of
\* the transmitted frame, when the line ends in "\r\n", and one body byte less when
\* it ends in a one-byte terminator.
C14_StripsTwoBytes ==
    (fetchReads = 1 /\ fetchStatus = "accepted")
    => /\ Len(rawLine) > StripLen
       /\ fetchOut = SubSeq(rawLine, 1, Len(rawLine) - StripLen)
       /\ IF TerminatorOf(rawLine) = CRLF
          THEN /\ fetchOut = FrameOf(rawLine)
               /\ (caller = "waitFor" /\ Len(fetchOut) >= 5 /\ fetchOut[5] = SEMI)
                  => FrameCarries(FrameOf(rawLine), thisCmd)
          ELSE fetchOut \o <<Last(FrameOf(rawLine))>> = FrameOf(rawLine)

\* C14, the case: a line with a two-byte terminator and two args was accepted and parsed
C14_Witness ==
    /\ fetchReads = 1
    /\ fetchStatus = "accepted"
    /\ caller = "waitFor"
    /\ rawLine = Line(8, DAT \o <<SEMI>> \o One \o <<COMMA>> \o Two, CRLF)
    /\ thisCmd = CmdDatOneTwo

(***************************************************************************)
(* C15                                                                     *)
(***************************************************************************)
RECURSIVE Concat(_)
\* the bytes of a sequence of delivered lines, one after the other
Concat(q) == IF q = <<>> THEN <<>> ELSE q[1].raw \o Concat(Tail(q))

\* the lines of the current waitFor call's passes that read a line, in order
TraceLines == SelectSeq(waitTrace, LAMBDA t : t.reads = 1)

\* the lines port.readline() returned during the current operation, in order
DeliveredNow == SelectSeq(delivered, LAMBDA d : d.op = nOps)

\* C15: no buffering, no replay.  The lines port.readline() has returned, in the
\* order it returned them, followed by the bytes still in the input buffer and on
\* the link, are exactly the bytes the device sent: lines are consumed in arrival
\* order and each byte is delivered at most once, so a line discarded by one pass is
\* never delivered to a later pass or a later call.  The passes of a waitFor call
\* see the lines consumed during that call, one pass each (a line whose decoding
\* raised has no pass), and when waitFor returns for a
\* 3-character code the last line consumed is the one it matched: nothing that
\* arrived after it has been read.
C15_NoBufferingNoReplay ==
    /\ Concat(delivered) \o inbuf \o wire = deviceSent
    /\ \A i \in 1..Len(delivered) :
           /\ delivered[i].raw # <<>>
           /\ i < Len(delivered) => delivered[i].op <= delivered[i + 1].op
    /\ (caller = "waitFor" /\ pc # "fetch_readline")
       => /\ Len(TraceLines) <= Len(DeliveredNow)
          /\ result.outcome \in {"running", "returned"}
             => Len(TraceLines) = Len(DeliveredNow)
          /\ \A i \in 1..Len(TraceLines) : TraceLines[i].raw = DeliveredNow[i].raw
    /\ (/\ result.op = "waitFor"
        /\ result.outcome = "returned"
        /\ Len(command) = CmdLen)
       => /\ delivered # <<>>
          /\ Last(delivered).op = nOps
          /\ Last(delivered).raw = Last(waitTrace).raw
          /\ LineCode(Last(delivered).raw) = command
          /\ \A i \in 1..(Len(delivered) - 1) :
                 delivered[i].op = nOps
                 => \E j \in 1..(Len(waitTrace) - 1) :
                        waitTrace[j].raw = delivered[i].raw /\ waitTrace[j].warned

\* the stream was [ACK, RDY]: waitFor(RDY) discarded the ACK line and returned on
\* the RDY line; the waitFor(ACK) that followed has polled and is still waiting
C15_Witness ==
    /\ nOps = 2
    /\ caller = "waitFor"
    /\ command = ACK
    /\ result.outcome = "running"
    /\ waitTrace # <<>>
    /\ delivered = << [op |-> 1, raw |-> Line(5, ACK \o <<SEMI>>, CRLF)],
                      [op |-> 1, raw |-> Line(5, RDY \o <<SEMI>>, CRLF)] >>
    /\ inbuf = <<>>
    /\ wire = <<>>

(***************************************************************************)
(* C16                                                                     *)
(***************************************************************************)
\* a step of fetchCmd or waitFor: a call, or a step taken inside the call
ReceiveStep ==
    \/ CallFetchCmd
    \/ \E expectedCode \in WaitPool : CallWaitFor(expectedCode)
    \/ FetchPoll
    \/ FetchReadLine

\* C16: the receive path never transmits.  No step of fetchCmd or waitFor changes
\* what has been given to port.write: not the step that rejects a line, not the
\* step that discards an unexpected command, not the step that raises.
C16_ReceiveNeverTransmits == [][ReceiveStep => outbuf' = outbuf]_vars

\* the main program has sent its RDY; the waitFor that followed has rejected a line
\* and warned, and the RDY frame is still all that was written
C16_Witness ==
    /\ py = 2
    /\ caller = "waitFor"
    /\ fetchStatus = "rejected"
    /\ errors # <<>>
    /\ warnings # <<>>
    /\ Len(outbuf) = 1
    /\ lastSend.outcome = "written"

(***************************************************************************)
(* C17                                                                     *)
(***************************************************************************)
\* the frame of a Command with code `code` and no argument text: the verification
\* byte, the code and the ";"
BareFrame(code) == <<Len(code) + 1>> \o code \o <<SEMI>>

\* C17: empty-argument collapse.  parse never yields the args list [""], and for
\* a frame with nothing after the ";" it yields the empty list.  A Command sent
\* with args [""] or with args [] is written as the same frame, code and ";" with
\* the verification byte; parsing that frame yields the code and args [].
C17_EmptyArgsCollapse ==
    /\ lastParse.done
       => /\ lastParse.c.args # <<EmptyStr>>
          /\ Len(lastParse.input) <= VerifLen + ArgsStart => lastParse.c.args = <<>>
    /\ (/\ lastSend.outcome = "written"
        /\ lastSend.c.args \in {<<>>, <<EmptyStr>>})
       => /\ Last(outbuf) = BareFrame(lastSend.c.cmd)
          /\ (lastParse.done /\ lastParse.input = Last(outbuf))
             => lastParse.c = [cmd |-> lastSend.c.cmd, args |-> <<>>]

\* a Command RDY with args [""] was written as "\x04RDY;", and parsing that frame
\* gave RDY with args []
C17_Witness ==
    /\ lastSend.outcome = "written"
    /\ lastSend.c = [cmd |-> RDY, args |-> <<EmptyStr>>]
    /\ Last(outbuf) = <<4, 82, 68, 89, 59>>
    /\ lastParse.done
    /\ lastParse.input = Last(outbuf)
    /\ lastParse.c = CmdRdy

(***************************************************************************)
(* C18                                                                     *)
(***************************************************************************)
\* every instance that exists before a step shows the same cmd and args after it
InstancesKept ==
    \A i \in 1..Len(heap.objs) :
        /\ i <= Len(heap'.objs)
        /\ View(heap', i) = View(heap, i)

\* C18: Commands are not shared across operations.  The list that is the class's
\* args attribute stays empty, and no step of a send helper, of Command.parse or
\* of waitFor changes the cmd or args of an instance made before it: each works
\* on the instance it has just made.
C18_NotShared == [](heap.cls = <<>>) /\ [][InstancesKept]_vars

\* sendError made ERR with bad_sensor; then waitFor(RDY) parsed a DAT line into one
\* instance, discarded it, and parsed the RDY line into the instance it returned
C18_Witness ==
    /\ Len(heap.objs) = 3
    /\ View(heap, 1) = CmdErrBadSensor
    /\ View(heap, 2) = CmdDatOneTwo
    /\ View(heap, 3) = CmdRdy
    /\ result.op = "waitFor"
    /\ result.outcome = "returned"
    /\ result.cmd = View(heap, 3)

====
